---- MODULE Spec2Model ----
(***************************************************************************)
(* A model of main_scraper.py: the bill-number normalizer, the CBO URL     *)
(* constructor, the cost-estimate extractor (score scan and affected       *)
(* sentences), the manual/API source selection, and main()'s per-bill      *)
(* compile-and-save loop.                                                  *)
(*                                                                         *)
(* Strings are sequences of one-character strings.  Python's None is the   *)
(* empty sequence where the value is a string or a list, and a record of   *)
(* its own (NormNone, NoScore) where the value is a dict.                  *)
(***************************************************************************)
EXTENDS Integers, Sequences, FiniteSets, TLC

\* ------------------------------------------------------------------------
\* Bounds of the model
\* ------------------------------------------------------------------------

\* Longest raw bill-number string enumerated over Chars (longer ones come
\* from SampleBillNumbers).
MaxLen == 4

\* Longest text, in pieces, enumerated over ScanPieces
MaxPieces == 4

\* Longest integer part of the monetary literals enumerated for the parse
MaxIntLen == 2

\* Longest list of bill stubs a source supplies
MaxBills == 2

\* Longest sequence of sentences read by the affected-sentence loop
MaxSentences == 22

\* How many sentences of a text may be other than a new qualifying one
MaxOdd == 1

\* ------------------------------------------------------------------------
\* Characters and strings
\* ------------------------------------------------------------------------

UpperLetters ==
    <<"A", "B", "C", "D", "E", "F", "G", "H", "I", "J", "K", "L", "M",
      "N", "O", "P", "Q", "R", "S", "T", "U", "V", "W", "X", "Y", "Z">>

LowerLetters ==
    <<"a", "b", "c", "d", "e", "f", "g", "h", "i", "j", "k", "l", "m",
      "n", "o", "p", "q", "r", "s", "t", "u", "v", "w", "x", "y", "z">>

Range(f) == {f[k] : k \in DOMAIN f}

Digits == {"0", "1", "2", "3", "4", "5", "6", "7", "8", "9"}

IndexOf(seq, c) == CHOOSE k \in DOMAIN seq : seq[k] = c

\* str.upper(), per character
UpperChar(c) == IF c \in Range(LowerLetters) THEN UpperLetters[IndexOf(LowerLetters, c)] ELSE c

\* str.lower(), per character
LowerChar(c) == IF c \in Range(UpperLetters) THEN LowerLetters[IndexOf(UpperLetters, c)] ELSE c

Upper(s) == [k \in DOMAIN s |-> UpperChar(s[k])]

Lower(s) == [k \in DOMAIN s |-> LowerChar(s[k])]

IsSpace(c) == c \in {" ", "\t", "\n"}

RECURSIVE LStrip(_)
LStrip(s) == IF s # <<>> /\ IsSpace(Head(s)) THEN LStrip(Tail(s)) ELSE s

RECURSIVE RStrip(_)
RStrip(s) == IF s # <<>> /\ IsSpace(s[Len(s)]) THEN RStrip(SubSeq(s, 1, Len(s) - 1)) ELSE s

\* str.strip()
Strip(s) == RStrip(LStrip(s))

\* str.replace(c, ""), c one character
RemoveChar(s, c) == SelectSeq(s, LAMBDA x : x # c)

\* str.replace("..", "."): non-overlapping occurrences, left to right
RECURSIVE CollapseDots(_)
CollapseDots(s) ==
    IF Len(s) < 2 THEN s
    ELSE IF s[1] = "." /\ s[2] = "." THEN <<".">> \o CollapseDots(SubSeq(s, 3, Len(s)))
    ELSE <<s[1]>> \o CollapseDots(Tail(s))

\* The longest suffix of s made of digits: what (\d+)$ captures when the
\* pattern before it cannot end in a digit.
RECURSIVE TrailingDigits(_)
TrailingDigits(s) ==
    IF s # <<>> /\ s[Len(s)] \in Digits
    THEN TrailingDigits(SubSeq(s, 1, Len(s) - 1)) \o <<s[Len(s)]>>
    ELSE <<>>

\* The longest prefix of s made of A-Z: what ^([A-Z]+) captures.
RECURSIVE LeadingUpper(_)
LeadingUpper(s) ==
    IF s # <<>> /\ Head(s) \in Range(UpperLetters)
    THEN <<Head(s)>> \o LeadingUpper(Tail(s))
    ELSE <<>>

StartsWith(s, p) == Len(s) >= Len(p) /\ SubSeq(s, 1, Len(p)) = p

\* ------------------------------------------------------------------------
\* normalize_bill_number
\* ------------------------------------------------------------------------

NormNone == [chamber |-> "None", number |-> <<>>]

\* cleaned = bill_number.strip().upper().replace(" ", "").replace("..", ".")
Cleaned(bill_number) == CollapseDots(RemoveChar(Upper(Strip(bill_number)), " "))

\* (H\.?.?R\.?|HR): H, an optional period, an optional arbitrary character,
\* R, an optional period.
IsHousePrefix(p) ==
    \E a, b, c \in 0..1 :
        /\ Len(p) = 2 + a + b + c
        /\ p[1] = "H"
        /\ (a = 1 => p[2] = ".")
        /\ (b = 1 => p[2 + a] # "\n")
        /\ p[2 + a + b] = "R"
        /\ (c = 1 => p[Len(p)] = ".")

\* (S\.?|S)
IsSenatePrefix(p) == p = <<"S">> \/ p = <<"S", ".">>

\* What precedes the digit run, less the optional dash (\-)?
BeforeNumber(s) ==
    LET rest == SubSeq(s, 1, Len(s) - Len(TrailingDigits(s)))
    IN  {rest} \cup (IF rest # <<>> /\ rest[Len(rest)] = "-"
                     THEN {SubSeq(rest, 1, Len(rest) - 1)} ELSE {})

\* re.match(r"^(H\.?.?R\.?|HR)(\-)?(\d+)$", cleaned)
MatchHouse(cleaned) ==
    /\ TrailingDigits(cleaned) # <<>>
    /\ \E p \in BeforeNumber(cleaned) : IsHousePrefix(p)

\* re.match(r"^(S\.?|S)(\-)?(\d+)$", cleaned)
MatchSenate(cleaned) ==
    /\ TrailingDigits(cleaned) # <<>>
    /\ \E p \in BeforeNumber(cleaned) : IsSenatePrefix(p)

\* re.match(r"^([A-Z]+).*?(\d+)$", t): a leading A-Z run and a trailing
\* digit run ("." matches no newline).
MatchFallback(t) ==
    /\ LeadingUpper(t) # <<>>
    /\ TrailingDigits(t) # <<>>
    /\ "\n" \notin Range(t)

\* The fallback's classification of t, the string it is applied to.
FallbackResult(t) ==
    IF MatchFallback(t)
    THEN LET prefix == LeadingUpper(t)
             num == TrailingDigits(t)
         IN  IF StartsWith(prefix, <<"H", "R">>) \/ StartsWith(prefix, <<"H">>)
             THEN [chamber |-> "hr", number |-> num]
             ELSE IF StartsWith(prefix, <<"S">>)
             THEN [chamber |-> "s", number |-> num]
             ELSE NormNone
    ELSE NormNone

\* The string the fallback rule is matched on: bill_number.replace(".", ""),
\* the raw argument and not `cleaned`.
FallbackSubject(bill_number) == RemoveChar(bill_number, ".")

normalize_bill_number(bill_number) ==
    IF bill_number = <<>> THEN NormNone
    ELSE LET cleaned == Cleaned(bill_number)
         IN  IF MatchHouse(cleaned)
             THEN [chamber |-> "hr", number |-> TrailingDigits(cleaned)]
             ELSE IF MatchSenate(cleaned)
             THEN [chamber |-> "s", number |-> TrailingDigits(cleaned)]
             ELSE FallbackResult(FallbackSubject(bill_number))

\* ------------------------------------------------------------------------
\* construct_cbo_url
\* ------------------------------------------------------------------------

CboBase == "https://www.cbo.gov/cost-estimates/"

\* The f-string of line 87 writes its braces doubled, so Python emits the
\* two placeholders as literal text and substitutes nothing.
CboUrlFormat(norm) == <<CboBase, "{norm['chamber']}", "/", "{norm['number']}">>

\* A fault of construct_cbo_url: the URL is built without the check of norm.
construct_cbo_url_NoCheck(bill_number) == CboUrlFormat(normalize_bill_number(bill_number))

construct_cbo_url(bill_number) ==
    LET norm == normalize_bill_number(bill_number)
    IN  IF norm = NormNone THEN <<>> ELSE CboUrlFormat(norm)

\* ------------------------------------------------------------------------
\* Document text
\* ------------------------------------------------------------------------
\* The plain text of a page is a sequence of pieces joined by single spaces.
\* A piece is a run of filler (no digit, comma, currency marker or letter of
\* a keyword; no whitespace at its ends), a word, or a monetary literal:
\* an optional marker, an integer part over digits and commas, an optional
\* fraction and an optional magnitude word one space after the number.

Filler(n) ==
    [kind |-> "filler", len |-> n, word |-> <<>>,
     marker |-> <<>>, int |-> <<>>, frac |-> <<>>, mag |-> <<>>]

Word(w) ==
    [kind |-> "word", len |-> 0, word |-> w,
     marker |-> <<>>, int |-> <<>>, frac |-> <<>>, mag |-> <<>>]

Money(marker, int, frac, mag) ==
    [kind |-> "money", len |-> 0, word |-> <<>>,
     marker |-> marker, int |-> int, frac |-> frac, mag |-> mag]

PieceLen(p) ==
    CASE p.kind = "filler" -> p.len
      [] p.kind = "word" -> Len(p.word)
      [] p.kind = "money" ->
            Len(p.marker) + Len(p.int)
            + (IF p.frac # <<>> THEN 1 + Len(p.frac) ELSE 0)
            + (IF p.mag # <<>> THEN 1 + Len(p.mag) ELSE 0)

\* Offset of the first character of piece k (0-based, as Python's)
RECURSIVE PieceStart(_, _)
PieceStart(text, k) ==
    IF k = 1 THEN 0 ELSE PieceStart(text, k - 1) + PieceLen(text[k - 1]) + 1

\* Offset just past the last character of piece k
PieceEnd(text, k) == PieceStart(text, k) + PieceLen(text[k])

TextLen(text) == IF text = <<>> THEN 0 ELSE PieceEnd(text, Len(text))

\* ------------------------------------------------------------------------
\* extract_cbo_score_and_groups: the score
\* ------------------------------------------------------------------------

\* Characters inspected before m.start() and after m.end()
Window == 200

\* score_text = excerpt.strip()[:1000]
ScoreTextCap == 1000

\* keywords, line 113
ScoreKeywords ==
    { <<"c", "o", "s", "t">>,
      <<"e", "s", "t", "i", "m", "a", "t", "e">>,
      <<"i", "n", "c", "r", "e", "a", "s", "e">>,
      <<"d", "e", "c", "r", "e", "a", "s", "e">>,
      <<"d", "e", "f", "i", "c", "i", "t">>,
      <<"s", "a", "v", "i", "n", "g", "s">>,
      <<"b", "u", "d", "g", "e", "t">>,
      <<"n", "e", "t">>,
      <<"s", "p", "e", "n", "d", "i", "n", "g">> }

\* money_regex.finditer(text): the matches are the monetary pieces, in
\* document order.
MoneyMatches(text) == {k \in DOMAIN text : text[k].kind = "money"}

\* The \s* after the number takes the space that follows a literal without a
\* magnitude word.
TakesSpaceAfter(text, k) ==
    text[k].kind = "money" /\ text[k].mag = <<>> /\ k < Len(text)

\* The \s* before the number takes the space that precedes a literal without
\* a marker, unless the previous match has taken it.
TakesSpaceBefore(text, k) ==
    text[k].kind = "money" /\ text[k].marker = <<>> /\ k > 1
    /\ ~TakesSpaceAfter(text, k - 1)

\* m.start()
MatchStart(text, k) == PieceStart(text, k) - (IF TakesSpaceBefore(text, k) THEN 1 ELSE 0)

\* m.end()
MatchEnd(text, k) == PieceEnd(text, k) + (IF TakesSpaceAfter(text, k) THEN 1 ELSE 0)

Max(a, b) == IF a >= b THEN a ELSE b

Min(a, b) == IF a <= b THEN a ELSE b

\* A fault of ExcerptLo: the excerpt starts at the match and holds nothing
\* of what precedes it.
ExcerptLo_NoLookBehind(text, k) == MatchStart(text, k)

\* start = max(0, m.start() - 200)
ExcerptLo(text, k) == Max(0, MatchStart(text, k) - Window)

\* The end of text[start:m.end() + 200]: a slice stops at the text's end.
ExcerptHi(text, k) == Min(TextLen(text), MatchEnd(text, k) + Window)

\* The 0-based offsets in w at which kw occurs
Occurrences(w, kw) ==
    {o \in 0..(Len(w) - Len(kw)) : SubSeq(w, o + 1, o + Len(kw)) = kw}

\* any(k in excerpt.lower() for k in keywords), the excerpt being the
\* characters lo..hi-1 of the text: a keyword occurs inside a word, wholly
\* within the excerpt.
KeywordIn(text, lo, hi) ==
    \E j \in DOMAIN text :
        /\ text[j].kind = "word"
        /\ \E kw \in ScoreKeywords :
             \E o \in Occurrences(Lower(text[j].word), kw) :
                /\ lo <= PieceStart(text, j) + o
                /\ PieceStart(text, j) + o + Len(kw) <= hi

Qualifies(text, k) == KeywordIn(text, ExcerptLo(text, k), ExcerptHi(text, k))

\* The loop of lines 115-120 from match k on: the first match whose excerpt
\* holds a keyword, and then break; 0 stands for best_match = None.
RECURSIVE ScanFrom(_, _)
ScanFrom(text, k) ==
    IF k > Len(text) THEN 0
    ELSE IF k \in MoneyMatches(text) /\ Qualifies(text, k) THEN k
    ELSE ScanFrom(text, k + 1)

BestMatch(text) == ScanFrom(text, 1)

\* A decimal number mant * 10^exp, kept with no trailing zero in mant so
\* that equal numbers are equal values.
RECURSIVE Dec(_, _)
Dec(mant, exp) ==
    IF mant = 0 THEN [mant |-> 0, exp |-> 0]
    ELSE IF mant % 10 = 0 THEN Dec(mant \div 10, exp + 1)
    ELSE [mant |-> mant, exp |-> exp]

DigitValue(c) == CHOOSE d \in 0..9 : ToString(d) = c

RECURSIVE DigitsToNat(_)
DigitsToNat(ds) ==
    IF ds = <<>> THEN 0
    ELSE 10 * DigitsToNat(SubSeq(ds, 1, Len(ds) - 1)) + DigitValue(ds[Len(ds)])

\* num_raw.replace(",", ""), num_raw being group 2: the integer part and,
\* behind a period, the fraction
NumClean(tok) == [int |-> RemoveChar(tok.int, ","), frac |-> tok.frac]

\* float() raises ValueError on the empty string, which is what is left of a
\* literal made of commas alone; ".5" parses.
FloatParses(num) == num.int # <<>> \/ num.frac # <<>>

\* A fault of MultiplierExp: the branches for "b" and "m" exchanged.
MultiplierExp_Swapped(mag) ==
    LET m == Lower(mag)
    IN  IF StartsWith(m, <<"b">>) THEN 6
        ELSE IF StartsWith(m, <<"m">>) THEN 9
        ELSE IF StartsWith(m, <<"t", "h">>) THEN 3
        ELSE 0

\* The power of ten num is multiplied by, lines 132-137
MultiplierExp(mag) ==
    LET m == Lower(mag)
    IN  IF StartsWith(m, <<"b">>) THEN 9
        ELSE IF StartsWith(m, <<"m">>) THEN 6
        ELSE IF StartsWith(m, <<"t", "h">>) THEN 3
        ELSE 0

\* float(num_raw.replace(",", "")) times the multiplier
ScoreValue(tok) ==
    LET num == NumClean(tok)
    IN  Dec(DigitsToNat(num.int \o num.frac), MultiplierExp(tok.mag) - Len(num.frac))

\* Whether offset pos of the text holds one of the joining spaces
IsJoinSpace(text, pos) ==
    \E j \in DOMAIN text : j < Len(text) /\ PieceEnd(text, j) = pos

\* excerpt.strip()[:1000] as the span of the text it covers.  Pieces have no
\* whitespace at their ends, so strip() removes at most one joining space
\* on each side.
ScoreText(text, k) ==
    LET lo == ExcerptLo(text, k)
        hi == ExcerptHi(text, k)
        from == IF lo < hi /\ IsJoinSpace(text, lo) THEN lo + 1 ELSE lo
        to == IF from < hi /\ IsJoinSpace(text, hi - 1) THEN hi - 1 ELSE hi
    IN  [from |-> from, to |-> Min(to, from + ScoreTextCap)]

NoScore == [score_text |-> <<>>, score_value |-> <<>>, score_unit |-> "None"]

\* Lines 122-141: the three score fields from best_match.  An optional value
\* is a sequence of length 0 (None) or 1.
ScoreFields(text, best) ==
    IF best = 0 THEN NoScore
    ELSE IF FloatParses(NumClean(text[best]))
    THEN [score_text |-> <<ScoreText(text, best)>>,
          score_value |-> <<ScoreValue(text[best])>>,
          score_unit |-> "dollars"]
    ELSE [score_text |-> <<ScoreText(text, best)>>,
          score_value |-> <<>>,
          score_unit |-> "None"]

\* ------------------------------------------------------------------------
\* extract_cbo_score_and_groups: the affected sentences
\* ------------------------------------------------------------------------
\* re.split(r"(?<=[.!?])\s+", text) yields the sentences.  A sentence is
\* modelled by the parts the loop reads: its number-like token, its group
\* word, a serial that stands for the rest of its wording, and the
\* whitespace the split leaves at its ends (before the first sentence,
\* after the last).

\* affected_sentences = ...[:20]
MaxAffected == 20

\* group_keywords, lines 143-158
GroupKeywords ==
    { <<"u", "n", "i", "n", "s", "u", "r", "e", "d">>,
      <<"h", "o", "u", "s", "e", "h", "o", "l", "d">>,
      <<"h", "o", "u", "s", "e", "h", "o", "l", "d", "s">>,
      <<"f", "a", "m", "i", "l", "i", "e", "s">>,
      <<"c", "h", "i", "l", "d", "r", "e", "n">>,
      <<"s", "e", "n", "i", "o", "r", "s">>,
      <<"e", "l", "d", "e", "r", "l", "y">>,
      <<"l", "o", "w", "-", "i", "n", "c", "o", "m", "e">>,
      <<"b", "e", "n", "e", "f", "i", "t">>,
      <<"b", "e", "n", "e", "f", "i", "c", "i", "a", "r", "i", "e", "s">>,
      <<"w", "o", "r", "k", "e", "r", "s">>,
      <<"e", "m", "p", "l", "o", "y", "e", "r", "s">>,
      <<"i", "n", "d", "i", "v", "i", "d", "u", "a", "l", "s">>,
      <<"p", "e", "o", "p", "l", "e">> }

Sentence(lead, serial, token, group, trail) ==
    [lead |-> lead, serial |-> serial, token |-> token, group |-> group, trail |-> trail]

\* s.strip()
StripSentence(s) == [s EXCEPT !.lead = FALSE, !.trail = FALSE]

\* \w
IsWordChar(c) ==
    c \in Range(UpperLetters) \cup Range(LowerLetters) \cup Digits \cup {"_"}

\* \b between positions p and p + 1 of w (p = 0: before the first
\* character; p = Len(w): after the last)
Boundary(w, p) ==
    LET left == p >= 1 /\ IsWordChar(w[p])
        right == p < Len(w) /\ IsWordChar(w[p + 1])
    IN  left # right

\* re.search(r"\b\d[\d,\.]*\b", w): a digit at a word boundary, then digits,
\* commas and periods up to a word boundary.
NumberSearch(w) ==
    \E i \in 1..Len(w) :
        /\ w[i] \in Digits
        /\ Boundary(w, i - 1)
        /\ \E e \in i..Len(w) :
             /\ \A x \in (i + 1)..e : w[x] \in Digits \cup {",", "."}
             /\ Boundary(w, e)

\* any(k in s.lower() for k in group_keywords)
HasGroupKeyword(w) ==
    \E kw \in GroupKeywords : Occurrences(Lower(w), kw) # {}

\* The condition of line 162.  The token and the group word stand in the
\* sentence between spaces; the serial holds neither digit nor keyword.
SentenceQualifies(s) == NumberSearch(s.token) /\ HasGroupKeyword(s.group)

\* One iteration of the loop of lines 161-163
AppendIfQualifies(acc, s) ==
    IF SentenceQualifies(s) THEN Append(acc, StripSentence(s)) ELSE acc

RECURSIVE CollectAffected(_)
CollectAffected(sents) ==
    IF sents = <<>> THEN <<>>
    ELSE AppendIfQualifies(CollectAffected(SubSeq(sents, 1, Len(sents) - 1)),
                           sents[Len(sents)])

\* list(dict.fromkeys(xs)): the first occurrence of each value, in order
RECURSIVE DictFromKeys(_)
DictFromKeys(xs) ==
    IF xs = <<>> THEN <<>>
    ELSE LET init == DictFromKeys(SubSeq(xs, 1, Len(xs) - 1))
             x == xs[Len(xs)]
         IN  IF x \in Range(init) THEN init ELSE Append(init, x)

\* xs[:n]
Take(xs, n) == SubSeq(xs, 1, Min(n, Len(xs)))

\* A fault of DedupeAndCap: the list cut to 20 before it is deduplicated.
DedupeAndCap_CapFirst(xs) == DictFromKeys(Take(xs, MaxAffected))

\* Line 164
DedupeAndCap(xs) == Take(DictFromKeys(xs), MaxAffected)

\* The whole of extract_cbo_score_and_groups on a page, given as its text
\* in pieces and the same text in sentences
extract_cbo_score_and_groups(page) ==
    LET fields == ScoreFields(page.pieces, BestMatch(page.pieces))
    IN  [score_text |-> fields.score_text,
         score_value |-> fields.score_value,
         score_unit |-> fields.score_unit,
         affected_sentences |-> DedupeAndCap(CollectAffected(page.sentences))]

\* ------------------------------------------------------------------------
\* find_gao_reports
\* ------------------------------------------------------------------------

\* soup.select("h3 a")[:10]
MaxGaoLinks == 10

GaoHost == "https://www.gao.gov"

\* href if href.startswith("http") else "https://www.gao.gov" + href; a
\* URL is a sequence of parts, the first being scheme and host if it has one
GaoHrefFull(href) ==
    IF href[1] \in {"http://", "https://", GaoHost} THEN href ELSE <<GaoHost>> \o href

RECURSIVE GaoResults(_)
GaoResults(links) ==
    IF links = <<>> THEN <<>>
    ELSE LET a == Head(links)
         IN  (IF a.href = <<>> THEN <<>>
              ELSE <<[title |-> a.title, url |-> GaoHrefFull(a.href)]>>)
             \o GaoResults(Tail(links))

\* resp is what safe_get(search_url) returned: no response, or the links of
\* the result page's headings
find_gao_reports(resp) ==
    IF resp.kind # "page" THEN <<>> ELSE GaoResults(Take(resp.links, MaxGaoLinks))

\* ------------------------------------------------------------------------
\* compile_record and save_record
\* ------------------------------------------------------------------------

\* bill.get("bill_number") or bill.get("bill") or bill.get("number")
BillNumberOf(bill) ==
    IF bill.bill_number # <<>> THEN bill.bill_number
    ELSE IF bill.bill # <<>> THEN bill.bill
    ELSE bill.number

\* cbo_url = construct_cbo_url(bill_number) if bill_number else None
RecordCboUrl(bill) ==
    IF BillNumberOf(bill) # <<>> THEN construct_cbo_url(BillNumberOf(bill)) ELSE <<>>

\* Whether compile_record calls safe_get(cbo_url)
FetchesCbo(bill) == RecordCboUrl(bill) # <<>>

\* The record for a stub that is a dict; cbo_resp is what safe_get(cbo_url)
\* returns (<<>>: None), gao_resp what the GAO search does.
compile_record(bill, t, cbo_resp, gao_resp) ==
    [bill_number |-> BillNumberOf(bill),
     title |-> bill.title,
     status |-> bill.status,
     raw_text_url |-> bill.raw_text_url,
     fetched_at |-> t,
     cbo_url |-> RecordCboUrl(bill),
     cbo |-> IF FetchesCbo(bill) /\ cbo_resp # <<>>
             THEN <<extract_cbo_score_and_groups(cbo_resp[1])>>
             ELSE <<>>,
     gao_reports |-> IF BillNumberOf(bill) # <<>> /\ gao_resp.kind # "raise"
                     THEN find_gao_reports(gao_resp)
                     ELSE <<>>]

\* (record.get("bill_number") or "unknown").replace("/", "_").replace(" ", "_")
SafeName(record) ==
    LET name == IF record.bill_number # <<>> THEN record.bill_number
                ELSE <<"u", "n", "k", "n", "o", "w", "n">>
    IN  [k \in DOMAIN name |-> IF name[k] \in {"/", " "} THEN "_" ELSE name[k]]

\* The f-string of line 336 writes its braces doubled: the name holds the
\* placeholders as literal text, whatever safe_name and ts are.
RecordFileName(safe_name, ts) == <<"record_", "{safe_name}", "_", "{ts}", ".json">>

ArtifactsDir == "artifacts"

\* os.path.join(out_dir, filename); ts is the clock, to the second
RecordPath(record, t) == <<ArtifactsDir>> \o RecordFileName(SafeName(record), t)

\* open(path, "w") and json.dump: the file at path is created or replaced
WriteFile(files, path, content) ==
    [f \in DOMAIN files \cup {path} |-> IF f = path THEN content ELSE files[f]]

\* ------------------------------------------------------------------------
\* The sources: load_manual_bills, parse_congress_gov_recent, get_recent_bills
\* ------------------------------------------------------------------------

\* A JSON source is unset/absent, malformed, a value that is no list, or a
\* list of items.
Source(state, items) == [state |-> state, items |-> items]

\* A fault of load_manual_bills: the handler of the parse error returns [].
load_manual_bills_ReturnsOnError(payload, file) ==
    IF payload.state = "list" THEN payload.items
    ELSE IF payload.state \in {"nonlist", "malformed"} THEN <<>>
    ELSE IF file.state = "list" THEN file.items
    ELSE <<>>

load_manual_bills(payload, file) ==
    IF payload.state = "list" THEN payload.items
    ELSE IF payload.state = "nonlist" THEN <<>>
    ELSE \* no payload, or json.loads raised and was logged: on to the file
         IF file.state = "list" THEN file.items
         ELSE <<>>

\* endpoint = f"{{CONGRESS_GOV_API_BASE}}/bills": the doubled braces leave the
\* placeholder as literal text, so the URL has neither scheme nor host.
CongressEndpoint == <<"{CONGRESS_GOV_API_BASE}", "/bills">>

UrlHasScheme(url) == url # <<>> /\ url[1] \in {"http://", "https://", GaoHost, CboBase}

\* requests.get raises (MissingSchema) on a URL without a scheme, and on any
\* transport failure.
RequestRaises(url, up) == ~UrlHasScheme(url) \/ ~up

\* out is the list the response would be unwrapped to
parse_congress_gov_recent(api_key, up, out) ==
    IF ~api_key THEN <<>>
    ELSE IF RequestRaises(CongressEndpoint, up) THEN <<>>
    ELSE out

get_recent_bills(e) ==
    IF e.bills_source = "manual" THEN load_manual_bills(e.payload, e.file)
    ELSE LET out == parse_congress_gov_recent(e.api_key, e.api_up, e.api_bills)
         IN  IF out # <<>> THEN out ELSE load_manual_bills(e.payload, e.file)

\* A fault of the loop's except clause: the exception leaves the loop and
\* reaches main's outer handler.
AfterBillException_Propagates(k) == [pc |-> "done", idx |-> k, exit_code |-> 2]

\* The except clause of main's loop, lines 357-358: the failure is logged
\* and the loop goes on with the next bill.
AfterBillException(k) == [pc |-> "loop", idx |-> k + 1, exit_code |-> -1]

\* ------------------------------------------------------------------------
\* State
\* ------------------------------------------------------------------------

VARIABLES
    pc,            \* where the modelled call or run stands
    bill_number,   \* normalizer: the raw argument
    norm,          \* normalizer: normalize_bill_number's result
    cbo_url,       \* normalizer: construct_cbo_url's result
    text,          \* extractor: the page text, in pieces
    best_match,    \* extractor: the index of the accepted match, 0 for None
    score,         \* extractor: score_text, score_value, score_unit
    sentences,     \* extractor: the sentences the loop has read
    affected,      \* extractor: affected_sentences
    env,           \* main: the environment variables, files and services
    bills,         \* main: the list get_recent_bills returned
    idx,           \* main: the position of the loop in bills
    attempted,     \* main: the positions the loop body was entered for
    failed,        \* main: the positions logged as "Failed to process bill"
    last,          \* main: what the last loop body did
    artifacts,     \* main: the files of the artifact directory, by path
    saved_paths,   \* main: saved_paths
    exit_code,     \* main: the value main() returned, -1 while it runs
    now            \* main: the clock, in seconds

normVars == <<bill_number, norm, cbo_url>>

scoreVars == <<text, best_match, score>>

affectedVars == <<sentences, affected>>

mainVars == <<env, bills, idx, attempted, failed, last, artifacts, saved_paths, exit_code, now>>

vars == <<pc, normVars, scoreVars, affectedVars, mainVars>>

Stub(is_dict, bn, b, n, title, raw_text_url) ==
    [is_dict |-> is_dict, bill_number |-> bn, bill |-> b, number |-> n,
     title |-> title, status |-> <<>>, raw_text_url |-> raw_text_url]

Env(bills_source, api_key, api_up, hours_ok, payload, file, api_bills) ==
    [bills_source |-> bills_source, api_key |-> api_key, api_up |-> api_up,
     hours_ok |-> hours_ok, payload |-> payload, file |-> file, api_bills |-> api_bills]

NothingDone == [compiled |-> <<>>, fetched_cbo |-> FALSE, saved |-> FALSE]

IdleNorm == bill_number = <<>> /\ norm = NormNone /\ cbo_url = <<>>

IdleScore == text = <<>> /\ best_match = 0 /\ score = NoScore

IdleAffected == sentences = <<>> /\ affected = <<>>

IdleMain ==
    /\ env = Env("manual", FALSE, FALSE, TRUE, Source("unset", <<>>), Source("absent", <<>>), <<>>)
    /\ bills = <<>>
    /\ idx = 0
    /\ attempted = <<>>
    /\ failed = <<>>
    /\ last = NothingDone
    /\ artifacts = <<>>
    /\ saved_paths = <<>>
    /\ exit_code = -1
    /\ now = 0

\* ------------------------------------------------------------------------
\* The normalizer applied to one raw bill number
\* ------------------------------------------------------------------------

Chars == {"H", "h", "R", "S", "s", "X", ".", " ", "-", "1", "2"}

SampleBillNumbers ==
    { <<"H", ".", "R", ".", " ", "1">>,
      <<"S", ".", " ", "2">>,
      <<"g", "a", "r", "b", "a", "g", "e">>,
      <<"h", "j", "r", "e", "s", "5">>,
      <<"S", ".", "J", ".", "R", "e", "s", ".", " ", "5">>,
      <<"H", ".", "R", ".", "-", "1", "2">> }

RawBillNumbers ==
    UNION {[1..n -> Chars] : n \in 0..MaxLen} \cup SampleBillNumbers

InitNormalize ==
    /\ pc = "normalize"
    /\ bill_number \in RawBillNumbers
    /\ norm = NormNone
    /\ cbo_url = <<>>
    /\ IdleScore
    /\ IdleAffected
    /\ IdleMain

\* construct_cbo_url(bill_number), which calls normalize_bill_number
Normalize ==
    /\ pc = "normalize"
    /\ norm' = normalize_bill_number(bill_number)
    /\ cbo_url' = construct_cbo_url(bill_number)
    /\ pc' = "normalized"
    /\ UNCHANGED <<bill_number, scoreVars, affectedVars, mainVars>>

NextNormalize == Normalize

SpecNormalize == InitNormalize /\ [][NextNormalize]_vars

\* ------------------------------------------------------------------------
\* The score extraction applied to one text
\* ------------------------------------------------------------------------

WCost == Word(<<"c", "o", "s", "t">>)

MoneyA == Money(<<"$">>, <<"3">>, <<>>, <<>>)

MoneyB == Money(<<>>, <<"4", "5">>, <<>>, <<"m", "i", "l", "l", "i", "o", "n">>)

\* Fillers one short of, and exactly, the length that pushes a keyword out
\* of the window of a marked literal
ScanPieces == {Filler(Window - 6), Filler(Window - 5), WCost, MoneyA, MoneyB}

ScanTexts == UNION {[1..n -> ScanPieces] : n \in 0..MaxPieces}

Markers == {<<>>, <<"$">>, <<"U", "S", "D">>}

IntParts == UNION {[1..n -> {"0", "1", ","}] : n \in 1..MaxIntLen}

FracParts == {<<>>, <<"2">>, <<"0", "5">>}

Magnitudes == {<<>>, <<"m", "i", "l", "l", "i", "o", "n">>, <<"B", "i", "l", "l", "i", "o", "n">>, <<"b", "i", "l", "l", "i", "o", "n">>, <<"T", "H", "O", "U", "S", "A", "N", "D">>}

MoneyTokens ==
    {Money(mk, i, f, mg) : mk \in Markers, i \in IntParts, f \in FracParts, mg \in Magnitudes}

ParseTexts == {<<WCost, m>> : m \in MoneyTokens} \cup {<<m>> : m \in MoneyTokens}

ExampleToken == Money(<<"$">>, <<"1">>, <<"2">>, <<"b", "i", "l", "l", "i", "o", "n">>)

\* "The cost estimate shows a $1.2 billion increase in spending."
ExampleSentence ==
    << Word(<<"T", "h", "e">>), WCost, Word(<<"e", "s", "t", "i", "m", "a", "t", "e">>), Word(<<"s", "h", "o", "w", "s">>), Word(<<"a">>),
       ExampleToken, Word(<<"i", "n", "c", "r", "e", "a", "s", "e">>), Word(<<"i", "n">>), Word(<<"s", "p", "e", "n", "d", "i", "n", "g", ".">>) >>

ExampleTexts ==
    {pre \o ExampleSentence \o post :
        pre \in {<<>>, <<MoneyB>>, <<Filler(Window)>>},
        post \in {<<>>, <<MoneyA>>}}

Texts == ScanTexts \cup ParseTexts \cup ExampleTexts

InitExtract ==
    /\ pc = "extract"
    /\ text \in Texts
    /\ best_match = 0
    /\ score = NoScore
    /\ IdleNorm
    /\ IdleAffected
    /\ IdleMain

\* Lines 112-141 of extract_cbo_score_and_groups
ExtractScore ==
    /\ pc = "extract"
    /\ best_match' = BestMatch(text)
    /\ score' = ScoreFields(text, BestMatch(text))
    /\ pc' = "extracted"
    /\ UNCHANGED <<text, normVars, affectedVars, mainVars>>

NextExtract == ExtractScore

SpecExtract == InitExtract /\ [][NextExtract]_vars

\* ------------------------------------------------------------------------
\* The affected-sentence loop applied to a text read sentence by sentence
\* ------------------------------------------------------------------------

TokNumber == <<"1", ",", "2", "0", "0">>

TokOrdinal == <<"5", "t", "h">>

TokNone == <<"x">>

WPeople == <<"p", "e", "o", "p", "l", "e">>

WWorkers == <<"W", "o", "r", "k", "e", "r", "s">>

WBudget == <<"b", "u", "d", "g", "e", "t">>

\* The sentences of a text that are other than a new qualifying sentence
OddIndices(sents) ==
    {k \in DOMAIN sents :
        \/ sents[k] # Sentence(FALSE, sents[k].serial, TokNumber, WPeople, FALSE)
        \/ \E j \in 1..(k - 1) : sents[j].serial = sents[k].serial}

\* The sentences that may follow sents in a text
NextSentences(sents) ==
    LET n == Cardinality({sents[k].serial : k \in DOMAIN sents}) + 1
    IN  {Sentence(FALSE, n, TokNumber, WPeople, FALSE)}
        \cup
        (IF Cardinality(OddIndices(sents)) < MaxOdd
         THEN {Sentence(FALSE, n, TokOrdinal, WPeople, FALSE),
               Sentence(FALSE, n, TokNumber, WBudget, FALSE),
               Sentence(FALSE, n, TokNone, WWorkers, TRUE)}
              \cup (IF sents = <<>>
                    THEN {Sentence(TRUE, n, TokNumber, WPeople, FALSE)}
                    ELSE {sents[1], sents[Len(sents)],
                          [StripSentence(sents[1]) EXCEPT !.trail = TRUE]})
         ELSE {})

InitAffected ==
    /\ pc = "sentences"
    /\ sentences = <<>>
    /\ affected = <<>>
    /\ IdleNorm
    /\ IdleScore
    /\ IdleMain

\* One iteration of the loop of lines 161-163, on the next sentence of the
\* text; a sentence with trailing whitespace is the text's last.
ReadSentence ==
    /\ pc = "sentences"
    /\ Len(sentences) < MaxSentences
    /\ \E s \in NextSentences(sentences) :
        /\ sentences' = Append(sentences, s)
        /\ affected' = AppendIfQualifies(affected, s)
        /\ pc' = IF s.trail THEN "last" ELSE "sentences"
    /\ UNCHANGED <<normVars, scoreVars, mainVars>>

\* The end of the loop and line 164
Dedupe ==
    /\ pc \in {"sentences", "last"}
    /\ affected' = DedupeAndCap(affected)
    /\ pc' = "returned"
    /\ UNCHANGED <<sentences, normVars, scoreVars, mainVars>>

NextAffected == ReadSentence \/ Dedupe

SpecAffected == InitAffected /\ [][NextAffected]_vars

\* ------------------------------------------------------------------------
\* main(): one run
\* ------------------------------------------------------------------------

StubHR1 ==
    Stub(TRUE, <<"H", ".", "R", ".", " ", "1">>, <<>>, <<>>, "An Act", <<"https://", "example/text">>)

StubS2 == Stub(TRUE, <<>>, <<>>, <<"S", ".", " ", "2">>, "", <<>>)

StubGarbage == Stub(TRUE, <<"g", "a", "r", "b", "a", "g", "e">>, <<>>, <<>>, "", <<>>)

StubNoNumber == Stub(TRUE, <<>>, <<>>, <<>>, "Untitled", <<>>)

\* An item of the list that is no JSON object
StubNotDict == Stub(FALSE, <<>>, <<>>, <<>>, "", <<>>)

Stubs == {StubHR1, StubS2, StubGarbage, StubNoNumber, StubNotDict}

StubLists == UNION {[1..n -> Stubs] : n \in 0..MaxBills}

\* RECENT_BILLS_JSON
Payloads ==
    {Source("unset", <<>>), Source("malformed", <<>>), Source("nonlist", <<>>),
     Source("list", <<>>), Source("list", <<StubHR1>>)}

FileBills == <<StubS2, StubGarbage>>

\* recent_bills.json
Files ==
    {Source("absent", <<>>), Source("malformed", <<>>), Source("nonlist", <<>>),
     Source("list", FileBills)}

\* BILLS_SOURCE, whether CONGRESS_GOV_API_KEY is set, whether the API answers
Backends ==
    { <<"manual", FALSE, FALSE>>, <<"congress.gov", FALSE, FALSE>>,
      <<"congress.gov", TRUE, FALSE>>, <<"congress.gov", TRUE, TRUE>> }

\* The environments of a run: every backend with every payload and file;
\* the manual backend with every list of stubs as payload; and one in which
\* TARGET_HOURS is beyond the range of datetime, so that
\* utcnow() - timedelta(hours=...) raises OverflowError.
Envs ==
    {Env(b[1], b[2], b[3], TRUE, p, f, <<StubHR1>>) :
        b \in Backends, p \in Payloads, f \in Files}
    \cup {Env("manual", FALSE, FALSE, TRUE, Source("list", l), Source("absent", <<>>), <<>>) :
             l \in StubLists}
    \cup {Env("manual", FALSE, FALSE, FALSE, Source("list", <<StubHR1>>),
              Source("absent", <<>>), <<>>)}

\* "$3 million in net savings for beneficiaries"
FixturePage ==
    [pieces |-> << Money(<<"$">>, <<"3">>, <<>>, <<"m", "i", "l", "l", "i", "o", "n">>), Word(<<"i", "n">>), Word(<<"n", "e", "t">>),
                   Word(<<"s", "a", "v", "i", "n", "g", "s">>), Word(<<"f", "o", "r">>), Word(<<"b", "e", "n", "e", "f", "i", "c", "i", "a", "r", "i", "e", "s">>) >>,
     sentences |-> << Sentence(FALSE, 1, <<"$", "3">>, <<"b", "e", "n", "e", "f", "i", "c", "i", "a", "r", "i", "e", "s">>, FALSE) >>]

\* What safe_get(cbo_url) returns: None, or a response with a page
CboResponses == {<<>>, <<FixturePage>>}

GaoLinks ==
    << [title |-> "Report A", href |-> <<"/products/gao-1">>],
       [title |-> "No target", href |-> <<>>],
       [title |-> "Report B", href |-> <<GaoHost, "/products/gao-2">>] >>

\* What the GAO search does: no response, a result page, or a fault raised
\* while the page is read
GaoResponses ==
    {[kind |-> "none", links |-> <<>>], [kind |-> "page", links |-> GaoLinks],
     [kind |-> "raise", links |-> <<>>]}

InitMain ==
    /\ pc = "start"
    /\ env \in Envs
    /\ bills = <<>>
    /\ idx = 0
    /\ attempted = <<>>
    /\ failed = <<>>
    /\ last = NothingDone
    /\ artifacts = <<>>
    /\ saved_paths = <<>>
    /\ exit_code = -1
    /\ now = 0
    /\ IdleNorm
    /\ IdleScore
    /\ IdleAffected

\* Lines 344-348: the bills are gathered; with none, main returns 0
GetBills ==
    /\ pc = "start"
    /\ env.hours_ok
    /\ bills' = get_recent_bills(env)
    /\ IF get_recent_bills(env) = <<>>
       THEN pc' = "done" /\ exit_code' = 0 /\ idx' = idx
       ELSE pc' = "loop" /\ exit_code' = exit_code /\ idx' = 1
    /\ UNCHANGED <<env, attempted, failed, last, artifacts, saved_paths, now>>
    /\ UNCHANGED <<normVars, scoreVars, affectedVars>>

\* Lines 361-363: get_recent_bills raised; main returns 2
TopLevelFailure ==
    /\ pc = "start"
    /\ ~env.hours_ok
    /\ pc' = "done"
    /\ exit_code' = 2
    /\ UNCHANGED <<env, bills, idx, attempted, failed, last, artifacts, saved_paths, now>>
    /\ UNCHANGED <<normVars, scoreVars, affectedVars>>

\* Lines 350-356: the record of bills[idx] is compiled and saved, and the
\* loop sleeps a second
CompileAndSave ==
    /\ pc = "loop"
    /\ idx <= Len(bills)
    /\ bills[idx].is_dict
    /\ \E cbo_resp \in CboResponses, gao_resp \in GaoResponses :
          LET rec == compile_record(bills[idx], now, cbo_resp, gao_resp)
              path == RecordPath(rec, now)
          IN  /\ artifacts' = WriteFile(artifacts, path, rec)
              /\ saved_paths' = Append(saved_paths, path)
              /\ last' = [compiled |-> <<rec>>, fetched_cbo |-> FetchesCbo(bills[idx]),
                          saved |-> TRUE]
    /\ attempted' = Append(attempted, idx)
    /\ idx' = idx + 1
    /\ now' = now + 1
    /\ UNCHANGED <<pc, env, bills, failed, exit_code>>
    /\ UNCHANGED <<normVars, scoreVars, affectedVars>>

\* Lines 350-358: compile_record raises (the item is no dict) or save_record
\* does (the directory or the file cannot be written); the failure is logged
BillFails ==
    /\ pc = "loop"
    /\ idx <= Len(bills)
    /\ \E cbo_resp \in CboResponses, gao_resp \in GaoResponses :
          last' = IF bills[idx].is_dict
                  THEN [compiled |-> <<compile_record(bills[idx], now, cbo_resp, gao_resp)>>,
                        fetched_cbo |-> FetchesCbo(bills[idx]), saved |-> FALSE]
                  ELSE NothingDone
    /\ attempted' = Append(attempted, idx)
    /\ failed' = Append(failed, idx)
    /\ LET after == AfterBillException(idx)
       IN  /\ pc' = after.pc
           /\ idx' = after.idx
           /\ exit_code' = IF after.exit_code = -1 THEN exit_code ELSE after.exit_code
    /\ UNCHANGED <<env, bills, artifacts, saved_paths, now>>
    /\ UNCHANGED <<normVars, scoreVars, affectedVars>>

\* Lines 359-360: the loop is over; main returns 0
FinishLoop ==
    /\ pc = "loop"
    /\ idx > Len(bills)
    /\ pc' = "done"
    /\ exit_code' = 0
    /\ UNCHANGED <<env, bills, idx, attempted, failed, last, artifacts, saved_paths, now>>
    /\ UNCHANGED <<normVars, scoreVars, affectedVars>>

NextMain == GetBills \/ TopLevelFailure \/ CompileAndSave \/ BillFails \/ FinishLoop

SpecMain == InitMain /\ [][NextMain]_vars

\* ------------------------------------------------------------------------
\* Claims about the normalizer and the URL
\* ------------------------------------------------------------------------

ChamberChars(norm0) == IF norm0.chamber = "hr" THEN <<"h", "r">> ELSE <<"s">>

\* C3: for a bill number normalized to {chamber c, number n} the URL is
\* https://www.cbo.gov/cost-estimates/c/n, and the URL is None exactly when
\* normalization fails.
C3_UrlFromCanonicalPair ==
    pc = "normalized" =>
        /\ (norm = NormNone <=> cbo_url = <<>>)
        /\ (norm # NormNone =>
                cbo_url = <<CboBase>> \o ChamberChars(norm) \o <<"/">> \o norm.number)

\* The normalizer as the claim C5 describes it: the three rules in order,
\* the fallback matched on the stripped, uppercased string.
ClaimedNormalize(raw) ==
    IF raw = <<>> THEN NormNone
    ELSE LET cleaned == Cleaned(raw)
         IN  IF MatchHouse(cleaned)
             THEN [chamber |-> "hr", number |-> TrailingDigits(cleaned)]
             ELSE IF MatchSenate(cleaned)
             THEN [chamber |-> "s", number |-> TrailingDigits(cleaned)]
             ELSE FallbackResult(RemoveChar(Upper(Strip(raw)), "."))

\* C5: the result is the one the first matching rule gives, House then
\* Senate then the fallback on the stripped uppercased string, and failure
\* exactly when no rule matches.
C5_FirstMatchingRule ==
    pc = "normalized" => norm = ClaimedNormalize(bill_number)

\* C6: a raw string, its all-lowercase form and its all-uppercase form
\* normalize to the same result.
C6_CaseInsensitive ==
    pc = "normalized" =>
        /\ norm = normalize_bill_number(Lower(bill_number))
        /\ norm = normalize_bill_number(Upper(bill_number))

\* ------------------------------------------------------------------------
\* Claims about the score
\* ------------------------------------------------------------------------

\* The monetary tokens with a score keyword within 200 characters before
\* the token's first or after its last character
TokensWithKeywordNearby ==
    {k \in DOMAIN text :
        /\ text[k].kind = "money"
        /\ \E j \in DOMAIN text : \E kw \in ScoreKeywords :
              /\ text[j].kind = "word"
              /\ \E o \in 0..Len(text[j].word) :
                    /\ o + Len(kw) <= Len(text[j].word)
                    /\ Lower(SubSeq(text[j].word, o + 1, o + Len(kw))) = kw
                    /\ PieceStart(text, j) + o >= MatchStart(text, k) - 200
                    /\ PieceStart(text, j) + o + Len(kw) <= MatchEnd(text, k) + 200}

\* C7: the accepted token is the earliest one with a score keyword in its
\* window, and with no such token the three score fields are absent.
C7_EarliestQualifyingToken ==
    pc = "extracted" =>
        IF TokensWithKeywordNearby = {}
        THEN /\ best_match = 0
             /\ score.score_text = <<>>
             /\ score.score_value = <<>>
             /\ score.score_unit = "None"
        ELSE /\ best_match \in TokensWithKeywordNearby
             /\ \A k \in TokensWithKeywordNearby : best_match <= k
             /\ score.score_text # <<>>

\* C7's case: a token without a keyword in its window was passed over for a
\* later one that has one.
C7_Witness ==
    /\ pc = "extracted"
    /\ best_match # 0
    /\ \E k \in 1..(best_match - 1) :
          text[k].kind = "money" /\ k \notin TokensWithKeywordNearby

\* The power of ten the claim gives for a magnitude word
ClaimedPower(mag) ==
    IF mag = <<>> THEN 0
    ELSE IF LowerChar(mag[1]) = "b" THEN 9
    ELSE IF LowerChar(mag[1]) = "m" THEN 6
    ELSE IF Len(mag) >= 2 /\ LowerChar(mag[1]) = "t" /\ LowerChar(mag[2]) = "h" THEN 3
    ELSE 0

\* The digits of a literal, thousands separators removed
LiteralDigits(tok) == SelectSeq(tok.int, LAMBDA c : c \in Digits) \o tok.frac

\* v is the number digits * 10^power
IsDecimal(v, digits, power) ==
    LET n == DigitsToNat(digits)
        shift == v.exp - power
    IN  IF n = 0 THEN v.mant = 0
        ELSE /\ shift \in 0..Len(digits)
             /\ v.mant * (10 ^ shift) = n

\* What C8 says of the accepted token: the value, the unit, and the literal
\* that does not parse.
ScoreOfAcceptedToken ==
    best_match # 0 =>
        LET tok == text[best_match]
            digits == LiteralDigits(tok)
        IN  /\ (score.score_unit = "dollars") <=> (score.score_value # <<>>)
            /\ digits # <<>> =>
                  /\ score.score_unit = "dollars"
                  /\ score.score_value # <<>>
                  /\ IsDecimal(score.score_value[1], digits,
                               ClaimedPower(tok.mag) - Len(tok.frac))
            /\ digits = <<>> =>
                  /\ score.score_value = <<>>
                  /\ score.score_unit = "None"
                  /\ score.score_text # <<>>

ContainsPieces(t, sub) ==
    \E i \in 0..(Len(t) - Len(sub)) : SubSeq(t, i + 1, i + Len(sub)) = sub

\* 1 200 000 000 = 12 * 10^8
OnePointTwoBillion == <<[mant |-> 12, exp |-> 8]>>

\* C8: the value is the literal, separators removed, times the power of the
\* magnitude word; the unit is "dollars" exactly when there is a value; a
\* literal that does not parse leaves only score_text; and a text in which
\* the example sentence's "$1.2 billion" is the accepted token yields
\* 1200000000 dollars.
C8_ScoreValueAndUnit ==
    pc = "extracted" =>
        /\ ScoreOfAcceptedToken
        /\ (ContainsPieces(text, ExampleSentence)
            /\ best_match # 0 /\ text[best_match] = ExampleToken
            /\ \A k \in 1..(best_match - 1) : text[k] # ExampleToken) =>
                /\ score.score_value = OnePointTwoBillion
                /\ score.score_unit = "dollars"

\* C8 as stated: any text containing the example sentence yields 1200000000.
C8_AsStated ==
    pc = "extracted" =>
        /\ ScoreOfAcceptedToken
        /\ ContainsPieces(text, ExampleSentence) =>
                /\ score.score_value = OnePointTwoBillion
                /\ score.score_unit = "dollars"

\* C8's case: a literal with a thousands separator, a fraction and a
\* magnitude word was accepted and parsed.
C8_Witness ==
    /\ pc = "extracted"
    /\ best_match # 0
    /\ text[best_match].int = <<",", "1">>
    /\ text[best_match].frac = <<"0", "5">>
    /\ text[best_match].mag = <<"T", "H", "O", "U", "S", "A", "N", "D">>
    /\ score.score_value = <<[mant |-> 105, exp |-> 1]>>
    /\ score.score_unit = "dollars"

\* ------------------------------------------------------------------------
\* Claims about the affected sentences
\* ------------------------------------------------------------------------

\* A sentence with a number delimited by word boundaries and a group keyword
HasBoundedNumber(s) ==
    \E i \in 1..Len(s.token) : \E e \in i..Len(s.token) :
        /\ \A x \in i..e : s.token[x] \in Digits \cup {",", "."}
        /\ s.token[i] \in Digits
        /\ (i = 1 \/ ~IsWordChar(s.token[i - 1]))
        /\ IsWordChar(s.token[e])
        /\ (e = Len(s.token) \/ ~IsWordChar(s.token[e + 1]))

\* A sentence with a numeric substring
HasDigit(s) == \E i \in 1..Len(s.token) : s.token[i] \in Digits

NamesGroup(s) ==
    LET w == Lower(s.group)
    IN  \E kw \in GroupKeywords : \E o \in 0..(Len(w) - Len(kw)) :
            \A x \in 1..Len(kw) : w[o + x] = kw[x]

\* The indices of the sentences read that satisfy Q and whose text, less the
\* surrounding whitespace, has not occurred at a smaller such index
FirstOccurrences(Q(_)) ==
    LET qs == {k \in DOMAIN sentences : Q(sentences[k])}
    IN  {k \in qs :
            \A j \in qs :
                j < k => StripSentence(sentences[j]) # StripSentence(sentences[k])}

\* affected lists, in order, the first 20 first occurrences under Q
ListsFirstDistinct(Q(_)) ==
    LET firsts == FirstOccurrences(Q)
    IN  /\ Len(affected) = Min(MaxAffected, Cardinality(firsts))
        /\ \A i \in DOMAIN affected :
              \E k \in firsts :
                 /\ Cardinality({j \in firsts : j <= k}) = i
                 /\ affected[i] = StripSentence(sentences[k])

NoDuplicates(xs) == \A i, j \in DOMAIN xs : xs[i] = xs[j] => i = j

QualifiesBounded(s) == HasBoundedNumber(s) /\ NamesGroup(s)

QualifiesAnyDigit(s) == HasDigit(s) /\ NamesGroup(s)

\* C9: affected_sentences has no two equal entries and at most 20, and is
\* the first 20 distinct sentences, in order of first occurrence, among
\* those with a number delimited by word boundaries and a group keyword.
C9_FirstTwentyDistinct ==
    pc = "returned" =>
        /\ NoDuplicates(affected)
        /\ Len(affected) <= 20
        /\ ListsFirstDistinct(QualifiesBounded)

\* C9 as stated: the qualifying sentences are those with a numeric substring
\* and a group keyword.
C9_AsStated ==
    pc = "returned" =>
        /\ NoDuplicates(affected)
        /\ Len(affected) <= 20
        /\ ListsFirstDistinct(QualifiesAnyDigit)

\* C9's case: a qualifying sentence was repeated and more than 20 distinct
\* ones were read, so that a duplicate and a 21st sentence were dropped.
C9_Witness ==
    /\ pc = "returned"
    /\ Len(affected) = 20
    /\ Cardinality(FirstOccurrences(QualifiesBounded)) > 20
    /\ \E j, k \in DOMAIN sentences :
          /\ j < k /\ k <= 20
          /\ QualifiesBounded(sentences[k])
          /\ StripSentence(sentences[j]) = StripSentence(sentences[k])

\* ------------------------------------------------------------------------
\* Claims about main(), compile_record and the sources
\* ------------------------------------------------------------------------

\* C1: after a run in which every bill was compiled and saved, the artifact
\* directory holds one artifact per bill, and no two saves wrote one path.
C1_OneArtifactPerBill ==
    (pc = "done" /\ bills # <<>> /\ Len(saved_paths) = Len(bills)) =>
        /\ Cardinality(DOMAIN artifacts) = Len(bills)
        /\ NoDuplicates(saved_paths)

\* C2: the bills are attempted once each, in source order; a bill that
\* fails does not stop the loop; and main returns 0.
C2_EveryBillAttemptedOnce ==
    /\ attempted = [k \in 1..Len(attempted) |-> k]
    /\ pc = "loop" => Len(attempted) = idx - 1
    /\ (pc = "done" /\ bills # <<>>) =>
          /\ Len(attempted) = Len(bills)
          /\ exit_code = 0

\* C2's case: the first bill failed, a later one was attempted and saved,
\* and main returned 0.
C2_Witness ==
    /\ pc = "done"
    /\ Len(bills) >= 2
    /\ failed # <<>> /\ failed[1] = 1
    /\ last.saved
    /\ Len(attempted) = Len(bills)
    /\ exit_code = 0

\* The bill number is missing, or no rule of the normalizer matches it
Unresolvable(bill) ==
    BillNumberOf(bill) = <<>> \/ normalize_bill_number(BillNumberOf(bill)) = NormNone

\* C4: for a stub whose bill number is missing or matches no rule,
\* compile_record returns a record with cbo_url and cbo null, and fetches
\* no CBO page.
C4_UnresolvableBillNumber ==
    attempted # <<>> =>
        LET bill == bills[attempted[Len(attempted)]]
        IN  (bill.is_dict /\ Unresolvable(bill)) =>
                /\ last.compiled # <<>>
                /\ last.compiled[1].cbo_url = <<>>
                /\ last.compiled[1].cbo = <<>>
                /\ ~last.fetched_cbo

\* C4's case: the record of a stub with bill number "garbage" was compiled
\* and saved.
C4_Witness ==
    /\ attempted # <<>>
    /\ bills[attempted[Len(attempted)]] = StubGarbage
    /\ last.saved
    /\ last.compiled[1].bill_number = StubGarbage.bill_number

\* C10: with RECENT_BILLS_JSON set and not parseable, the manual strategy
\* returns the list of recent_bills.json if that file holds a list, and the
\* empty list otherwise; get_recent_bills returns the same, the API strategy
\* yielding nothing.
C10_MalformedPayloadFallsBack ==
    (pc # "start" /\ env.hours_ok /\ env.payload.state = "malformed") =>
        bills = IF env.file.state = "list" THEN env.file.items ELSE <<>>

\* C10 as stated: the result is empty whatever the file holds.
C10_AsStated ==
    (pc # "start" /\ env.hours_ok /\ env.payload.state = "malformed") =>
        bills = <<>>

\* C10's case: the payload is malformed, the API strategy was tried, and
\* the bills are those of the file.
C10_Witness ==
    /\ pc # "start"
    /\ env.payload.state = "malformed"
    /\ env.bills_source = "congress.gov" /\ env.api_key
    /\ env.file.state = "list"
    /\ bills = FileBills

====
